---- MODULE Spec2Model ----
(***************************************************************************)
(* Model of ProcessXMM/spc2dat.py (the reduction of one detector exposure  *)
(* into <prefix>_processed.h5) and of the presence check that              *)
(* ProcessXMM/filter_reduction_results.py runs on its output.              *)
(***************************************************************************)
EXTENDS Integers, Sequences, FiniteSets, TLC

(***************************************************************************)
(* Numbers.  The script computes with floating point values using only    *)
(* multiplication, division and comparison (the only additions are on      *)
(* small integers).  A value is modelled exactly, as                       *)
(*      s * 2^e[1] * 3^e[2] * 5^e[3] * pi^pi * rn / rd                     *)
(* with rn, rd coprime to 30 and to each other, or as one of the IEEE      *)
(* specials numpy produces on a division by zero (inf, -inf, nan).         *)
(* The factored form keeps 12960000^2 and the like out of the integers.    *)
(***************************************************************************)
Primes == <<2, 3, 5>>

Abs(n) == IF n < 0 THEN -n ELSE n

Sgn(n) == IF n < 0 THEN -1 ELSE IF n = 0 THEN 0 ELSE 1

RECURSIVE GCD(_, _)
GCD(a, b) == IF b = 0 THEN a ELSE GCD(b, a % b)

RECURSIVE Pow(_, _)
Pow(p, k) == IF k <= 0 THEN 1 ELSE p * Pow(p, k - 1)

\* the exponent of the prime p in n > 0
RECURSIVE Val(_, _)
Val(p, n) == IF n % p = 0 THEN 1 + Val(p, n \div p) ELSE 0

NoExp == [q \in 1..3 |-> 0]

Zero == [k |-> "fin", s |-> 0, e |-> NoExp, pi |-> 0, rn |-> 1, rd |-> 1]

NaN == [k |-> "nan", s |-> 0, e |-> NoExp, pi |-> 0, rn |-> 1, rd |-> 1]

Inf(sg) == [k |-> "inf", s |-> sg, e |-> NoExp, pi |-> 0, rn |-> 1, rd |-> 1]

\* an integer as a value
FromInt(n) ==
    IF n = 0 THEN Zero
    ELSE LET a == Abs(n)
             ex == [q \in 1..3 |-> Val(Primes[q], a)]
             sm == Pow(2, ex[1]) * Pow(3, ex[2]) * Pow(5, ex[3])
         IN  [k |-> "fin", s |-> Sgn(n), e |-> ex, pi |-> 0,
              rn |-> a \div sm, rd |-> 1]

One == FromInt(1)

\* np.pi
Pi == [k |-> "fin", s |-> 1, e |-> NoExp, pi |-> 1, rn |-> 1, rd |-> 1]

\* a * b, as IEEE multiplication does on the specials
Mul(a, b) ==
    IF a.k = "nan" \/ b.k = "nan" THEN NaN
    ELSE IF a.k = "inf" \/ b.k = "inf"
         THEN IF a.s * b.s = 0 THEN NaN ELSE Inf(a.s * b.s)
    ELSE IF a.s = 0 \/ b.s = 0 THEN Zero
    ELSE LET n == a.rn * b.rn
             d == a.rd * b.rd
             g == GCD(n, d)
         IN  [k |-> "fin", s |-> a.s * b.s,
              e |-> [q \in 1..3 |-> a.e[q] + b.e[q]],
              pi |-> a.pi + b.pi, rn |-> n \div g, rd |-> d \div g]

\* a / b, as numpy divides: x/0 is inf (nan for 0/0) with a warning, no error
Div(a, b) ==
    IF a.k = "nan" \/ b.k = "nan" THEN NaN
    ELSE IF b.k = "inf" THEN (IF a.k = "inf" THEN NaN ELSE Zero)
    ELSE IF b.s = 0 THEN (IF a.s = 0 THEN NaN ELSE Inf(a.s))
    ELSE IF a.k = "inf" THEN Inf(a.s * b.s)
    ELSE IF a.s = 0 THEN Zero
    ELSE LET n == a.rn * b.rd
             d == a.rd * b.rn
             g == GCD(n, d)
         IN  [k |-> "fin", s |-> a.s * b.s,
              e |-> [q \in 1..3 |-> a.e[q] - b.e[q]],
              pi |-> a.pi - b.pi, rn |-> n \div g, rd |-> d \div g]

\* the literal n/d
Rat(n, d) == Div(FromInt(n), FromInt(d))

\* numerator and denominator of a finite, positive, pi-free value
Numer(a) == a.rn * Pow(2, a.e[1]) * Pow(3, a.e[2]) * Pow(5, a.e[3])

Denom(a) == a.rd * Pow(2, -a.e[1]) * Pow(3, -a.e[2]) * Pow(5, -a.e[3])

\* a < b on rational values (IEEE: every comparison with nan is false)
Less(a, b) ==
    IF a.k = "nan" \/ b.k = "nan" THEN FALSE
    ELSE IF a.k = "inf" THEN a.s < 0 /\ ~(b.k = "inf" /\ b.s < 0)
    ELSE IF b.k = "inf" THEN b.s > 0
    ELSE IF a.s # b.s THEN a.s < b.s
    ELSE IF a.s = 0 THEN FALSE
    ELSE LET r == Div(a, b)
         IN  IF a.s > 0 THEN Numer(r) < Denom(r) ELSE Numer(r) > Denom(r)


(***************************************************************************)
(* Sizes of the tables of one exposure.                                    *)
(***************************************************************************)
\* rows of rmf[1] (input energy bins)
NIn == 2

\* rows of rmf[2] (output channels)
NOut == 3

\* width of the F_CHAN / N_CHAN arrays of a vector-layout row
MaxGrp == 2

Chans == 1..NOut

Bins == 1..NIn

(***************************************************************************)
(* numpy: a[lo:hi] for 0 <= lo clips both ends to the length of a.         *)
(***************************************************************************)
Min(a, b) == IF a < b THEN a ELSE b

Slice(a, lo, hi) == SubSeq(a, Min(lo, Len(a)) + 1, Min(hi, Len(a)))

\* det_col[fc:fc+sl] = vals can be done when the shapes agree, or when vals
\* has one element, which numpy broadcasts; otherwise it raises ValueError
CanAssign(col, fc, sl, vals) ==
    \/ Len(vals) = Len(Slice(col, fc, fc + sl))
    \/ Len(vals) = 1

\* the run written one channel too far (F_CHAN taken as counted from one)
SliceAssignShifted(col, fc, sl, vals) ==
    [p \in 1..Len(col) |->
        IF Min(fc + 1, Len(col)) < p /\ p <= Min(fc + 1 + sl, Len(col))
        THEN (IF Len(vals) = 1 THEN vals[1] ELSE vals[p - fc - 1])
        ELSE col[p]]

SliceAssign(col, fc, sl, vals) ==
    [p \in 1..Len(col) |->
        IF Min(fc, Len(col)) < p /\ p <= Min(fc + sl, Len(col))
        THEN (IF Len(vals) = 1 THEN vals[1] ELSE vals[p - fc])
        ELSE col[p]]

\* np.zeros(n)
Zeros(n) == [p \in 1..n |-> Zero]

\* the cut of spc2dat.py line 101
Cut == Rat(1, 100000)

\* the cut at 1e-6
CutoffLow(col) ==
    [p \in 1..Len(col) |-> IF Less(col[p], Rat(1, 1000000)) THEN Zero ELSE col[p]]

\* det_col[np.where(det_col < 1.e-5)] = 0.
Cutoff(col) == [p \in 1..Len(col) |-> IF Less(col[p], Cut) THEN Zero ELSE col[p]]

\* the side of a pixel in rad, not squared
PixelSide ==
    Div(Mul(Div(Div(Mul(Rat(5, 100), One), FromInt(60)), FromInt(60)), Pi), FromInt(180))

\* (0.05'')^2 in sr: (0.05*1./60./60.*np.pi/180.)**2.
PixelSr ==
    LET side == Div(Mul(Div(Div(Mul(Rat(5, 100), One), FromInt(60)), FromInt(60)), Pi),
                    FromInt(180))
    IN  Mul(side, side)

RoiSize(backscal) == Mul(FromInt(backscal), PixelSr)

\* counts/cout_de/exp/roi_size, element by element
Flux(cnt, de, ex, roi) ==
    [c \in 1..Len(cnt) |-> Div(Div(Div(FromInt(cnt[c]), FromInt(de[c])), ex), roi)]

\* column * scalar
Scale(col, x) == [p \in 1..Len(col) |-> Mul(col[p], x)]

(***************************************************************************)
(* Observation identifiers are strings of digits, kept as sequences.       *)
(***************************************************************************)
RECURSIVE Digits(_)
Digits(n) == IF n < 10 THEN <<n>> ELSE Digits(n \div 10) \o <<n % 10>>

IdWidth == 10

\* the values of int2str_dict: the integer written with 10 digits
ZFill(d) == [q \in 1..(IdWidth - Len(d)) |-> 0] \o d

Int2Str(n) == ZFill(Digits(n))

\* the index left as it was read
RenameNone(table, dict) ==
    { [label |-> [t |-> "int", d |-> Digits(r.id)], row |-> r] : r \in table }

\* obs_df.rename(int2str_dict, axis='index'): a label the dictionary has is
\* replaced by its string, any other label is kept (an integer)
Rename(table, dict) ==
    { [label |-> IF r.id \in dict THEN [t |-> "str", d |-> Int2Str(r.id)]
                 ELSE [t |-> "int", d |-> Digits(r.id)],
       row |-> r] : r \in table }

\* obs_df[col].loc[obsID] with obsID a string: the rows whose label is that string
Loc(df, id) == { x.row : x \in { y \in df : y.label = [t |-> "str", d |-> id] } }

(***************************************************************************)
(* The files of one exposure.  A response table is kept column by column,  *)
(* as astropy gives it; ndim is len(np.shape(F_CHAN)).  In the scalar      *)
(* layout F_CHAN[i] and N_CHAN[i] are integers, in the vector layout they  *)
(* are arrays of width MaxGrp, zero after the last group.                  *)
(***************************************************************************)
FileNames == {"obj", "arf", "rmf", "qpb"}

\* the values a MATRIX row is made of: above, below and at the cut, and negative
Cycle == <<Rat(1, 5), Rat(1, 2), Rat(1, 10), Rat(1, 1000000), Rat(1, 100000),
           Rat(-1, 10), Rat(1, 200000)>>

Pattern(len, sh) == [q \in 1..len |-> Cycle[((q - 1 + sh) % Len(Cycle)) + 1]]

\* MATRIX rows: long enough for MaxGrp runs of two channels, and too short
Matrices == { Pattern(2 * MaxGrp, 0), Pattern(2 * MaxGrp, 3), Pattern(3, 3),
              Pattern(1, 0) }

\* a group: its first channel and a run of one or two channels, or no channel
Runs == ((0..(NOut - 1)) \X {1, 2}) \cup {<<0, 0>>}

Pad(f, g) == [q \in 1..MaxGrp |-> IF q <= g THEN f[q] ELSE 0]

\* the rows of a vector-layout table
VRows ==
    UNION { { [N_GRP |-> g,
               F_CHAN |-> Pad([q \in 1..g |-> r[q][1]], g),
               N_CHAN |-> Pad([q \in 1..g |-> r[q][2]], g),
               MATRIX |-> m] : r \in [1..g -> Runs], m \in Matrices }
            : g \in 0..MaxGrp }

\* the rows of a scalar-layout table
SRows ==
    { [N_GRP |-> g, F_CHAN |-> r[1], N_CHAN |-> r[2], MATRIX |-> m] :
        g \in 0..MaxGrp, r \in Runs, m \in Matrices }

Rows(ndim) == IF ndim = 2 THEN VRows ELSE SRows

\* a row with one group: a single channel b, of probability 1/2
PlainRow(ndim, b) ==
    IF ndim = 2
    THEN [N_GRP |-> 1, F_CHAN |-> Pad(<<(b - 1) % NOut>>, 1), N_CHAN |-> Pad(<<1>>, 1),
          MATRIX |-> <<Rat(1, 2)>>]
    ELSE [N_GRP |-> 1, F_CHAN |-> (b - 1) % NOut, N_CHAN |-> 1, MATRIX |-> <<Rat(1, 2)>>]

\* rmf[1].data of the table whose rows are rs
Rmf1(ndim, rs) ==
    [ndim |-> ndim,
     ENERG_LO |-> [b \in Bins |-> b],
     ENERG_HI |-> [b \in Bins |-> b + 1],
     N_GRP |-> [b \in Bins |-> rs[b].N_GRP],
     F_CHAN |-> [b \in Bins |-> rs[b].F_CHAN],
     N_CHAN |-> [b \in Bins |-> rs[b].N_CHAN],
     MATRIX |-> [b \in Bins |-> rs[b].MATRIX]]

PlainRmf(ndim) == Rmf1(ndim, [b \in Bins |-> PlainRow(ndim, b)])

\* the plain table with row b0 replaced
RmfWith(ndim, b0, row) ==
    Rmf1(ndim, [b \in Bins |-> IF b = b0 THEN row ELSE PlainRow(ndim, b)])

\* every table of a layout that differs from the plain one in one row
RichRmfs(ndim) == { RmfWith(ndim, b0, row) : b0 \in Bins, row \in Rows(ndim) }

\* rmf[2].data: channel c is [E_MIN, E_MAX) of width c
Rmf2 ==
    [E_MIN |-> [c \in Chans |-> (c * (c - 1)) \div 2],
     E_MAX |-> [c \in Chans |-> (c * (c + 1)) \div 2]]

\* the spectrum: COUNTS and the header
ObjFile(ex, bs) ==
    [COUNTS |-> [c \in Chans |-> 6 * (c - 1)], EXPOSURE |-> ex, BACKSCAL |-> bs]

\* the background spectrum: a pn file has RATE, a mos file has COUNTS
QpbFile(kind) ==
    [cols |-> IF kind = "rate" THEN {"RATE", "STAT_ERR"} ELSE {"COUNTS", "STAT_ERR"},
     RATE |-> [c \in Chans |-> FromInt(2)],
     COUNTS |-> [c \in Chans |-> FromInt(200)],
     STAT_ERR |-> [c \in Chans |-> Rat(c, 2)]]

ArfFile == [SPECRESP |-> [b \in Bins |-> FromInt(b + 1)]]

\* all_obs_9_5_2018_dfacs.csv: the index is read as integers
CsvTable ==
    { [id |-> 123456789, Dfac_gal |-> 3, Dfac_eg |-> 4, LII |-> 10, BII |-> 20],
      [id |-> 1234567890, Dfac_gal |-> 5, Dfac_eg |-> 6, LII |-> 30, BII |-> 40] }

\* the keys of int2str_dict.npy
DictKeys == { r.id : r \in CsvTable }

World(present, obj, rmf1, kind) ==
    [present |-> present, obj |-> obj, arf |-> ArfFile, rmf1 |-> rmf1, rmf2 |-> Rmf2,
     qpb |-> QpbFile(kind), csv |-> CsvTable, dict |-> DictKeys]

Kind(ndim) == IF ndim = 2 THEN "rate" ELSE "counts"

PlainObj == ObjFile(100, 2)

PlainWorld(ndim) == World(FileNames, PlainObj, PlainRmf(ndim), Kind(ndim))

Exposures == {-100, 0, 100}

Backscals == {-1, 0, 1, 2, 3, 1296000000}

\* a response row that cannot be decoded (its run leaves the channels), and a
\* row of two groups
BadRow == [N_GRP |-> 1, F_CHAN |-> NOut - 1, N_CHAN |-> 2,
           MATRIX |-> <<Rat(1, 5), Rat(1, 2)>>]

TwoRow == [N_GRP |-> 2, F_CHAN |-> Pad(<<NOut - 1, 0>>, 2), N_CHAN |-> Pad(<<1, 2>>, 2),
           MATRIX |-> <<Rat(1, 5), Rat(1, 200000), Rat(1, 2)>>]

\* the exposures of the whole run, for each layout of the response table: the
\* header and the two families vary, or a file is absent, or the response table
\* is unusual
Worlds(ndim) ==
    { World(FileNames, ObjFile(ex, bs), PlainRmf(ndim), k) :
        <<ex, bs, k>> \in Exposures \X Backscals \X {"rate", "counts"} }
    \cup { World(FileNames \ {f}, PlainObj, PlainRmf(ndim), Kind(ndim)) : f \in FileNames }
    \cup { World(FileNames, PlainObj,
                 RmfWith(ndim, NIn, IF ndim = 2 THEN TwoRow ELSE BadRow), Kind(ndim)) }

\* the exposures of the decoder: any response table of RichRmfs
DecodeWorlds(ndim) == { World(FileNames, PlainObj, t, Kind(ndim)) : t \in RichRmfs(ndim) }

\* --obsID: in the table once padded, given without its leading zero, in the
\* table as it is, and not in the table
GoodID == Int2Str(123456789)

ObsIDs == { GoodID, Digits(123456789), Digits(1234567890), Int2Str(42) }

(***************************************************************************)
(* State.  world and obsID are the inputs; the rest are the variables of  *)
(* spc2dat.py under their own names, the output file, and the variables    *)
(* of the presence check of filter_reduction_results.py.                   *)
(***************************************************************************)
VARIABLES
    world, obsID,
    pc, err, handles,
    counts, exp, roi_size,
    cin_min, cin_max, cout_min, cout_max, cout_de, effA,
    pndat, det_res, i, j, jtot, det_col,
    flux, bkg_eff_cts, bkg_eff_cts_err,
    obs_df, Dfac, EGDfac, gal_l, gal_b,
    out_file,
    aggPc, obsdetpref_list, exp_list, bad_obsdetprefs

inVars == <<world, obsID>>

loadVars == <<counts, exp, roi_size, cin_min, cin_max, cout_min, cout_max, cout_de, effA>>

decVars == <<pndat, det_res, i, j, jtot, det_col>>

bkgVars == <<flux, bkg_eff_cts, bkg_eff_cts_err>>

metaVars == <<obs_df, Dfac, EGDfac, gal_l, gal_b>>

aggVars == <<aggPc, obsdetpref_list, exp_list, bad_obsdetprefs>>

vars == <<inVars, pc, err, handles, loadVars, decVars, bkgVars, metaVars, out_file, aggVars>>

\* a name that is not bound yet
Undef == [k |-> "undef", s |-> 0, e |-> NoExp, pi |-> 0, rn |-> 1, rd |-> 1]

NoErr == [kind |-> "none", at |-> "none"]

Start(w, id) ==
    /\ world = w
    /\ obsID = id
    /\ pc = "open_obj"
    /\ err = NoErr
    /\ handles = {}
    /\ counts = <<>> /\ exp = Undef /\ roi_size = Undef
    /\ cin_min = <<>> /\ cin_max = <<>> /\ cout_min = <<>> /\ cout_max = <<>>
    /\ cout_de = <<>> /\ effA = <<>>
    /\ pndat = 0 /\ det_res = <<>> /\ i = 0 /\ j = 0 /\ jtot = 0 /\ det_col = <<>>
    /\ flux = <<>> /\ bkg_eff_cts = <<>> /\ bkg_eff_cts_err = <<>>
    /\ obs_df = {} /\ Dfac = 0 /\ EGDfac = 0 /\ gal_l = 0 /\ gal_b = 0
    /\ out_file = [exists |-> FALSE, closed |-> FALSE, sets |-> <<>>]
    /\ aggPc = "check"
    /\ obsdetpref_list = <<>> /\ exp_list = <<>> /\ bad_obsdetprefs = <<>>

Init ==
    \/ \E w \in Worlds(1) : Start(w, GoodID)
    \/ \E w \in Worlds(2) : Start(w, GoodID)
    \/ \E id \in ObsIDs : Start(PlainWorld(2), id)

InitDecode ==
    \/ Init
    \/ \E w \in DecodeWorlds(1) : Start(w, GoodID)
    \/ \E w \in DecodeWorlds(2) : Start(w, GoodID)

(***************************************************************************)
(* spc2dat.py.  An uncaught exception ends the script where it is raised.  *)
(* The script raises IOError for an absent file (the specification's       *)
(* MissingCalibrationFile), ValueError for a run that does not fit         *)
(* (ShapeMismatchError) and KeyError for an absent column or an absent     *)
(* label (MetadataNotFoundError).                                          *)
(***************************************************************************)
Raise(kind) ==
    /\ pc' = "failed"
    /\ err' = [kind |-> kind, at |-> pc]

\* fits.open(base + ...)
Open(f, next) ==
    /\ pc = "open_" \o f
    /\ \/ /\ f \in world.present
          /\ handles' = handles \cup {f}
          /\ pc' = next
          /\ UNCHANGED err
       \/ /\ f \notin world.present
          /\ Raise("IOError")
          /\ UNCHANGED handles
    /\ UNCHANGED <<inVars, loadVars, decVars, bkgVars, metaVars, out_file, aggVars>>

OpenObj == Open("obj", "open_arf")

OpenArf == Open("arf", "open_rmf")

OpenRmf == Open("rmf", "open_qpb")

OpenQpb == Open("qpb", "extract")

\* counts, exp, roi_size
Extract ==
    /\ pc = "extract"
    /\ counts' = world.obj.COUNTS
    /\ exp' = FromInt(world.obj.EXPOSURE)
    /\ roi_size' = RoiSize(world.obj.BACKSCAL)
    /\ pc' = "grids"
    /\ UNCHANGED <<inVars, err, handles, cin_min, cin_max, cout_min, cout_max, cout_de,
                   effA, decVars, bkgVars, metaVars, out_file, aggVars>>

\* cin_min, cin_max, cout_min, cout_max, cout_de, effA
Grids ==
    /\ pc = "grids"
    /\ cin_min' = world.rmf1.ENERG_LO
    /\ cin_max' = world.rmf1.ENERG_HI
    /\ cout_min' = world.rmf2.E_MIN
    /\ cout_max' = world.rmf2.E_MAX
    /\ cout_de' = [c \in 1..Len(world.rmf2.E_MAX) |->
                      world.rmf2.E_MAX[c] - world.rmf2.E_MIN[c]]
    /\ effA' = world.arf.SPECRESP
    /\ pc' = "detect"
    /\ UNCHANGED <<inVars, err, handles, counts, exp, roi_size, decVars, bkgVars,
                   metaVars, out_file, aggVars>>

\* pndat, and det_res = np.zeros((len(cout_min), len(cin_min)))
Detect ==
    /\ pc = "detect"
    /\ pndat' = IF world.rmf1.ndim = 2 THEN 1 ELSE 0
    /\ det_res' = [r \in 1..Len(cout_min) |-> Zeros(Len(cin_min))]
    /\ i' = 0
    /\ pc' = "col"
    /\ UNCHANGED <<inVars, err, handles, loadVars, j, jtot, det_col, bkgVars, metaVars,
                   out_file, aggVars>>

\* for i in range(len(cin_min)): det_col = np.zeros(len(cout_min)); jtot = 0
ColStart ==
    /\ pc = "col"
    /\ \/ /\ i < Len(cin_min)
          /\ det_col' = Zeros(Len(cout_min))
          /\ jtot' = 0
          /\ j' = 0
          /\ pc' = "grp"
       \/ /\ i >= Len(cin_min)
          /\ pc' = "flux"
          /\ UNCHANGED <<j, jtot, det_col>>
    /\ UNCHANGED <<inVars, err, handles, loadVars, pndat, det_res, i, bkgVars, metaVars,
                   out_file, aggVars>>

\* the groups of a vector-layout row taken from the end of the array
FirstChanFromEnd(pn, rmf1, ii, jj) ==
    IF pn = 1 THEN rmf1.F_CHAN[ii + 1][Len(rmf1.F_CHAN[ii + 1]) - jj]
    ELSE rmf1.F_CHAN[ii + 1]

\* fc and sl of group jj of row ii (both counted from 0)
FirstChan(pn, rmf1, ii, jj) ==
    IF pn = 1 THEN rmf1.F_CHAN[ii + 1][jj + 1] ELSE rmf1.F_CHAN[ii + 1]

NumChan(pn, rmf1, ii, jj) ==
    IF pn = 1 THEN rmf1.N_CHAN[ii + 1][jj + 1] ELSE rmf1.N_CHAN[ii + 1]

\* one pass of: for j in range(N_GRP[i])
GroupStep ==
    /\ pc = "grp"
    /\ LET fc == FirstChan(pndat, world.rmf1, i, j)
           sl == NumChan(pndat, world.rmf1, i, j)
           vals == Slice(world.rmf1.MATRIX[i + 1], jtot, jtot + sl)
       IN  \/ /\ j < world.rmf1.N_GRP[i + 1]
              /\ CanAssign(det_col, fc, sl, vals)
              /\ det_col' = SliceAssign(det_col, fc, sl, vals)
              /\ jtot' = jtot + sl
              /\ j' = j + 1
              /\ UNCHANGED <<pc, err>>
           \/ /\ j < world.rmf1.N_GRP[i + 1]
              /\ ~CanAssign(det_col, fc, sl, vals)
              /\ Raise("ValueError")
              /\ UNCHANGED <<j, jtot, det_col>>
           \/ /\ j >= world.rmf1.N_GRP[i + 1]
              /\ pc' = "cut"
              /\ UNCHANGED <<err, j, jtot, det_col>>
    /\ UNCHANGED <<inVars, handles, loadVars, pndat, det_res, i, bkgVars, metaVars,
                   out_file, aggVars>>

\* the groups jj, jj+1, ... of row ii written into col, as the loop over j does;
\* ok is FALSE when an assignment raises
RECURSIVE DecodeGroups(_, _, _, _, _, _)
DecodeGroups(pn, rmf1, ii, jj, jt, col) ==
    IF jj >= rmf1.N_GRP[ii + 1] THEN [ok |-> TRUE, col |-> col]
    ELSE LET fc == FirstChan(pn, rmf1, ii, jj)
             sl == NumChan(pn, rmf1, ii, jj)
             vals == Slice(rmf1.MATRIX[ii + 1], jt, jt + sl)
         IN  IF CanAssign(col, fc, sl, vals)
             THEN DecodeGroups(pn, rmf1, ii, jj + 1, jt + sl, SliceAssign(col, fc, sl, vals))
             ELSE [ok |-> FALSE, col |-> col]

\* column ii of the response matrix of a table: decoded, cut and scaled
DecodeCol(rmf1, ii, n, area) ==
    LET pn == IF rmf1.ndim = 2 THEN 1 ELSE 0
        d == DecodeGroups(pn, rmf1, ii, 0, 0, Zeros(n))
    IN  [ok |-> d.ok, col |-> Scale(Cutoff(d.col), area[ii + 1])]

\* tocut = np.where(det_col < 1.e-5); det_col[tocut] = 0.
Threshold ==
    /\ pc = "cut"
    /\ det_col' = Cutoff(det_col)
    /\ pc' = "scale"
    /\ UNCHANGED <<inVars, err, handles, loadVars, pndat, det_res, i, j, jtot, bkgVars,
                   metaVars, out_file, aggVars>>

\* det_res[:,i] = det_col * effA[i]
ScaleCol ==
    /\ pc = "scale"
    /\ det_res' = [r \in 1..Len(det_res) |->
                      [det_res[r] EXCEPT ![i + 1] = Scale(det_col, effA[i + 1])[r]]]
    /\ i' = i + 1
    /\ pc' = "col"
    /\ UNCHANGED <<inVars, err, handles, loadVars, pndat, j, jtot, det_col, bkgVars,
                   metaVars, out_file, aggVars>>

\* flux = counts/cout_de/exp/roi_size
FluxStep ==
    /\ pc = "flux"
    /\ flux' = Flux(counts, cout_de, exp, roi_size)
    /\ pc' = "bkg"
    /\ UNCHANGED <<inVars, err, handles, loadVars, decVars, bkg_eff_cts, bkg_eff_cts_err,
                   metaVars, out_file, aggVars>>

\* the rate of a pn table taken for counts
BkgCtsRate(pn, qpb, ex) == IF pn = 1 THEN qpb.RATE ELSE qpb.COUNTS

\* the background of a pn table and of a mos table
BkgCts(pn, qpb, ex) == IF pn = 1 THEN Scale(qpb.RATE, ex) ELSE qpb.COUNTS

BkgErr(pn, qpb, ex) == IF pn = 1 THEN Scale(qpb.STAT_ERR, ex) ELSE qpb.STAT_ERR

BkgCol(pn) == IF pn = 1 THEN "RATE" ELSE "COUNTS"

Background ==
    /\ pc = "bkg"
    /\ \/ /\ BkgCol(pndat) \in world.qpb.cols
          /\ bkg_eff_cts' = BkgCts(pndat, world.qpb, exp)
          /\ bkg_eff_cts_err' = BkgErr(pndat, world.qpb, exp)
          /\ pc' = "meta_load"
          /\ UNCHANGED err
       \/ /\ BkgCol(pndat) \notin world.qpb.cols
          /\ Raise("KeyError")
          /\ UNCHANGED <<bkg_eff_cts, bkg_eff_cts_err>>
    /\ UNCHANGED <<inVars, handles, loadVars, decVars, flux, metaVars, out_file, aggVars>>

\* obs_df = pd.read_csv(...); obs_df.rename(int2str_dict, ...)
MetaLoad ==
    /\ pc = "meta_load"
    /\ obs_df' = Rename(world.csv, world.dict)
    /\ pc' = "meta"
    /\ UNCHANGED <<inVars, err, handles, loadVars, decVars, bkgVars, Dfac, EGDfac, gal_l,
                   gal_b, out_file, aggVars>>

\* the four lookups with the KeyError of an absent label swallowed
MetaLookupLenient ==
    /\ pc = "meta"
    /\ pc' = "h5open"
    /\ UNCHANGED <<inVars, err, handles, loadVars, decVars, bkgVars, metaVars, out_file,
                   aggVars>>

\* the four .loc[obsID]
MetaLookup ==
    /\ pc = "meta"
    /\ \/ /\ Loc(obs_df, obsID) # {}
          /\ LET row == CHOOSE r \in Loc(obs_df, obsID) : TRUE
             IN  /\ Dfac' = row.Dfac_gal
                 /\ EGDfac' = row.Dfac_eg
                 /\ gal_l' = row.LII
                 /\ gal_b' = row.BII
          /\ pc' = "h5open"
          /\ UNCHANGED err
       \/ /\ Loc(obs_df, obsID) = {}
          /\ Raise("KeyError")
          /\ UNCHANGED <<Dfac, EGDfac, gal_l, gal_b>>
    /\ UNCHANGED <<inVars, handles, loadVars, decVars, bkgVars, obs_df, out_file, aggVars>>

\* h5f = h5py.File(out_file, 'w'): the file is created, or emptied
H5Open ==
    /\ pc = "h5open"
    /\ out_file' = [exists |-> TRUE, closed |-> FALSE, sets |-> <<>>]
    /\ pc' = "h5write"
    /\ UNCHANGED <<inVars, err, handles, loadVars, decVars, bkgVars, metaVars, aggVars>>

\* the create_dataset calls, in their order
Fields == <<"counts", "flux", "det_res", "exp", "roi_size", "cin_min", "cin_max",
            "cout_min", "cout_max", "bkg_eff_cts", "bkg_eff_cts_err", "Dfac", "EGDfac",
            "gal_l", "gal_b">>

Data(name) ==
    CASE name = "counts" -> counts
      [] name = "flux" -> flux
      [] name = "det_res" -> det_res
      [] name = "exp" -> exp
      [] name = "roi_size" -> roi_size
      [] name = "cin_min" -> cin_min
      [] name = "cin_max" -> cin_max
      [] name = "cout_min" -> cout_min
      [] name = "cout_max" -> cout_max
      [] name = "bkg_eff_cts" -> bkg_eff_cts
      [] name = "bkg_eff_cts_err" -> bkg_eff_cts_err
      [] name = "Dfac" -> Dfac
      [] name = "EGDfac" -> EGDfac
      [] name = "gal_l" -> gal_l
      [] name = "gal_b" -> gal_b

\* the names of the datasets a file holds
Keys(file) == { file.sets[q][1] : q \in 1..Len(file.sets) }

\* the next h5f.create_dataset, or h5f.close() after the last
H5Write ==
    /\ pc = "h5write"
    /\ \/ /\ Len(out_file.sets) < Len(Fields)
          /\ LET name == Fields[Len(out_file.sets) + 1]
             IN  out_file' = [out_file EXCEPT !.sets = Append(@, <<name, Data(name)>>)]
          /\ UNCHANGED pc
       \/ /\ Len(out_file.sets) = Len(Fields)
          /\ out_file' = [out_file EXCEPT !.closed = TRUE]
          /\ pc' = "done"
    /\ UNCHANGED <<inVars, err, handles, loadVars, decVars, bkgVars, metaVars, aggVars>>

Terminal == {"done", "failed", "crashed"}

\* the process is killed, or the machine stops, at any statement
Crash ==
    /\ pc \notin Terminal
    /\ pc' = "crashed"
    /\ UNCHANGED <<inVars, err, handles, loadVars, decVars, bkgVars, metaVars, out_file,
                   aggVars>>

(***************************************************************************)
(* filter_reduction_results.py, for this exposure.                         *)
(***************************************************************************)
\* if os.path.isfile(out_file): obsdetpref_list.append(...) else: bad list
AggCheck ==
    /\ aggPc = "check"
    /\ \/ /\ out_file.exists
          /\ obsdetpref_list' = Append(obsdetpref_list, obsID)
          /\ aggPc' = "read"
          /\ UNCHANGED bad_obsdetprefs
       \/ /\ ~out_file.exists
          /\ bad_obsdetprefs' = Append(bad_obsdetprefs, obsID)
          /\ aggPc' = "done"
          /\ UNCHANGED obsdetpref_list
    /\ UNCHANGED <<inVars, pc, err, handles, loadVars, decVars, bkgVars, metaVars,
                   out_file, exp_list>>

\* exp = processed_data['exp'].value; exp_list.append(exp)
AggRead ==
    /\ aggPc = "read"
    /\ \/ /\ "exp" \in Keys(out_file)
          /\ exp_list' = Append(exp_list,
                 out_file.sets[CHOOSE q \in 1..Len(out_file.sets) :
                                   out_file.sets[q][1] = "exp"][2])
          /\ aggPc' = "done"
       \/ /\ "exp" \notin Keys(out_file)
          /\ aggPc' = "error"
          /\ UNCHANGED exp_list
    /\ UNCHANGED <<inVars, pc, err, handles, loadVars, decVars, bkgVars, metaVars,
                   out_file, obsdetpref_list, bad_obsdetprefs>>

\* spc2dat.py up to the response matrix (lines 30 to 105)
Decode ==
    \/ OpenObj \/ OpenArf \/ OpenRmf \/ OpenQpb
    \/ Extract \/ Grids \/ Detect
    \/ ColStart \/ GroupStep \/ Threshold \/ ScaleCol

\* the rest of spc2dat.py (lines 108 to 159)
Finish ==
    \/ FluxStep \/ Background \/ MetaLoad \/ MetaLookup
    \/ H5Open \/ H5Write

Next == Decode \/ Finish \/ Crash \/ AggCheck \/ AggRead

Spec == Init /\ [][Next]_vars

\* the decoding alone, over every response table of DecodeWorlds
SpecDecode == InitDecode /\ [][Decode]_vars

(***************************************************************************)
(* The decoder.                                                            *)
(***************************************************************************)
\* the row being decoded
Row ==
    [N_GRP |-> world.rmf1.N_GRP[i + 1],
     fc |-> [q \in 1..world.rmf1.N_GRP[i + 1] |->
                IF world.rmf1.ndim = 2 THEN world.rmf1.F_CHAN[i + 1][q]
                ELSE world.rmf1.F_CHAN[i + 1]],
     sl |-> [q \in 1..world.rmf1.N_GRP[i + 1] |->
                IF world.rmf1.ndim = 2 THEN world.rmf1.N_CHAN[i + 1][q]
                ELSE world.rmf1.N_CHAN[i + 1]],
     MATRIX |-> world.rmf1.MATRIX[i + 1]]

\* where the values of group q start in MATRIX: the sum of the earlier run lengths
RECURSIVE OffsetOf(_, _)
OffsetOf(row, q) == IF q <= 1 THEN 0 ELSE OffsetOf(row, q - 1) + row.sl[q - 1]

\* channel p (counted from 0) lies in the run of group q
InRun(row, q, p) == row.fc[q] <= p /\ p < row.fc[q] + row.sl[q]

\* a group encoding as the response format defines it: every run inside the
\* channels, no channel in two runs, and a value for every channel of every run
WellFormed(row) ==
    /\ \A q \in 1..row.N_GRP : row.fc[q] + row.sl[q] <= Len(world.rmf2.E_MIN)
    /\ \A q, r \in 1..row.N_GRP :
          q # r => ~(\E p \in 0..(Len(world.rmf2.E_MIN) - 1) : InRun(row, q, p) /\ InRun(row, r, p))
    /\ OffsetOf(row, row.N_GRP + 1) <= Len(row.MATRIX)

\* what channel p of the column must hold
Expected(row, p) ==
    IF \E q \in 1..row.N_GRP : InRun(row, q, p)
    THEN LET q == CHOOSE q \in 1..row.N_GRP : InRun(row, q, p)
         IN  row.MATRIX[OffsetOf(row, q) + (p - row.fc[q]) + 1]
    ELSE Zero

\* C1: for every input bin whose groups are well formed, the decoder raises
\* nothing and, once the groups are read and before the cut, the column has one
\* entry per output channel, each run [F_CHAN, F_CHAN+N_CHAN) holds the next
\* N_CHAN values of MATRIX[i] in group order, and every other entry is zero.
C1_DecodedColumn ==
    /\ (pc = "cut" /\ WellFormed(Row)) =>
          /\ Len(det_col) = Len(world.rmf2.E_MIN)
          /\ \A p \in 0..(Len(world.rmf2.E_MIN) - 1) : det_col[p + 1] = Expected(Row, p)
    /\ (pc = "failed" /\ err.at = "grp") => ~WellFormed(Row)

\* a second bin of two runs, with a channel outside both, has been decoded
C1_Witness ==
    /\ pc = "cut" /\ i = 1 /\ WellFormed(Row)
    /\ Row.N_GRP = 2 /\ Row.sl[1] = 1 /\ Row.sl[2] = 1 /\ Row.fc[2] < Row.fc[1]
    /\ \E p \in 1..Len(det_col) : det_col[p] = Zero
    /\ det_col[Row.fc[1] + 1] = Row.MATRIX[1] /\ det_col[Row.fc[2] + 1] = Row.MATRIX[2]

\* C2: after the cut and before the column is multiplied by the effective area,
\* every entry of the column is 0 or at least 1e-5, an entry is 0 exactly when the
\* decoded value was below 1e-5 (or 0), cutting again changes nothing, and the
\* column of det_res is the cut column times effA[i].
C2_Threshold ==
    /\ pc = "scale" =>
          /\ \A p \in 1..Len(det_col) : det_col[p] = Zero \/ ~Less(det_col[p], Cut)
          /\ Cutoff(det_col) = det_col
          /\ \A r \in 1..Len(det_res) : det_res[r][i + 1] = Zero
          /\ WellFormed(Row) =>
                \A p \in 0..(Len(det_col) - 1) :
                    det_col[p + 1] = IF Less(Expected(Row, p), Cut) THEN Zero
                                     ELSE Expected(Row, p)
    /\ (pc = "col" /\ i > 0) =>
          \A r \in 1..Len(det_res) : det_res[r][i] = Mul(det_col[r], effA[i])

\* a value below the cut and a negative value were decoded and are now 0, and
\* the value 1e-5 itself was kept
C2_Witness ==
    /\ pc = "scale" /\ WellFormed(Row)
    /\ \E p \in 0..(Len(det_col) - 1) :
          Expected(Row, p) = Rat(1, 1000000) /\ det_col[p + 1] = Zero
    /\ \E p \in 0..(Len(det_col) - 1) :
          Expected(Row, p) = Rat(-1, 10) /\ det_col[p + 1] = Zero
    /\ \E p \in 0..(Len(det_col) - 1) : det_col[p + 1] = Cut

\* the same table in the other layout, when every bin has one group
ToVector(rmf1) ==
    [rmf1 EXCEPT !.ndim = 2,
                 !.F_CHAN = [b \in 1..Len(rmf1.F_CHAN) |-> Pad(<<rmf1.F_CHAN[b]>>, 1)],
                 !.N_CHAN = [b \in 1..Len(rmf1.N_CHAN) |-> Pad(<<rmf1.N_CHAN[b]>>, 1)]]

ToScalar(rmf1) ==
    [rmf1 EXCEPT !.ndim = 1,
                 !.F_CHAN = [b \in 1..Len(rmf1.F_CHAN) |-> rmf1.F_CHAN[b][1]],
                 !.N_CHAN = [b \in 1..Len(rmf1.N_CHAN) |-> rmf1.N_CHAN[b][1]]]

OtherLayout(rmf1) == IF rmf1.ndim = 2 THEN ToScalar(rmf1) ELSE ToVector(rmf1)

OneGroupPerBin(rmf1) == \A b \in 1..Len(rmf1.N_GRP) : rmf1.N_GRP[b] = 1

\* C3: when every input bin has exactly one group, each column of the matrix
\* decoded from the table is the column decoded from the table that encodes the
\* same groups in the other layout (and a run that cannot be decoded in one
\* layout cannot be decoded in the other); the layout, pndat, is the one the
\* dimension of F_CHAN gives for as long as the matrix is decoded.
C3_LayoutEquivalence ==
    /\ (pc \in {"col", "flux"} /\ OneGroupPerBin(world.rmf1)) =>
          \A b \in 1..i :
              LET other == DecodeCol(OtherLayout(world.rmf1), b - 1, Len(cout_min), effA)
              IN  /\ other.ok
                  /\ \A r \in 1..Len(det_res) : det_res[r][b] = other.col[r]
    /\ (pc = "failed" /\ err.at = "grp" /\ OneGroupPerBin(world.rmf1)) =>
          ~DecodeCol(OtherLayout(world.rmf1), i, Len(cout_min), effA).ok
    /\ pc \in {"col", "grp", "cut", "scale", "flux"} =>
          pndat = (IF world.rmf1.ndim = 2 THEN 1 ELSE 0)

\* a scalar-layout table of one group per bin, one of them a run of two channels
\* from channel 1 on, has been decoded whole
C3_Witness ==
    /\ pc = "flux" /\ world.rmf1.ndim = 1 /\ OneGroupPerBin(world.rmf1)
    /\ \E b \in Bins : world.rmf1.N_CHAN[b] = 2 /\ world.rmf1.F_CHAN[b] = 1
                       /\ det_res[2][b] # Zero /\ det_res[3][b] # Zero

(***************************************************************************)
(* The whole run.                                                          *)
(***************************************************************************)
NonPositive(x) == x # Undef /\ x.k = "fin" /\ x.s <= 0

\* C4: a run whose exposure time or ROI solid angle is not positive produces no
\* flux and writes no output record; otherwise flux[c] is
\* counts[c] / (E_MAX[c] - E_MIN[c]) / exposure_time / roi_solid_angle.
C4_InvalidExposure ==
    /\ (NonPositive(exp) \/ NonPositive(roi_size)) => (flux = <<>> /\ ~out_file.exists)
    /\ flux # <<>> =>
          \A c \in 1..Len(flux) :
              flux[c] = Div(Div(Div(FromInt(world.obj.COUNTS[c]),
                                    FromInt(world.rmf2.E_MAX[c] - world.rmf2.E_MIN[c])),
                                FromInt(world.obj.EXPOSURE)),
                            roi_size)

\* C5: when the presence check has found the output file, the run of the
\* exposure is complete and the file holds every field, so that the read of
\* 'exp' cannot fail (stated for the exposures that are valid: positive
\* exposure time and ROI).
C5_PresenceMeansSuccess ==
    (world.obj.EXPOSURE > 0 /\ world.obj.BACKSCAL > 0) =>
    /\ aggPc = "read" =>
          pc = "done" /\ out_file.closed /\ Keys(out_file) = { Fields[q] : q \in 1..Len(Fields) }
    /\ aggPc # "error"

\* C6: the background and its error are RATE*exposure and STAT_ERR*exposure when
\* F_CHAN has two dimensions, and COUNTS and STAT_ERR as stored when it has one;
\* a rate of 2.0 with an exposure of 100 gives 200.0.
C6_Background ==
    bkg_eff_cts # <<>> =>
        /\ Len(bkg_eff_cts) = Len(world.qpb.STAT_ERR)
        /\ Len(bkg_eff_cts_err) = Len(world.qpb.STAT_ERR)
        /\ \A c \in 1..Len(bkg_eff_cts) :
              IF world.rmf1.ndim = 2
              THEN /\ bkg_eff_cts[c] = Mul(world.qpb.RATE[c], FromInt(world.obj.EXPOSURE))
                   /\ bkg_eff_cts_err[c] =
                          Mul(world.qpb.STAT_ERR[c], FromInt(world.obj.EXPOSURE))
                   /\ (world.qpb.RATE[c] = FromInt(2) /\ world.obj.EXPOSURE = 100) =>
                          bkg_eff_cts[c] = FromInt(200)
              ELSE /\ bkg_eff_cts[c] = world.qpb.COUNTS[c]
                   /\ bkg_eff_cts_err[c] = world.qpb.STAT_ERR[c]

\* a rate of 2.0 over an exposure of 100 s has become 200.0 counts
C6_Witness ==
    /\ world.rmf1.ndim = 2 /\ world.obj.EXPOSURE = 100
    /\ world.qpb.RATE[1] = FromInt(2)
    /\ bkg_eff_cts # <<>> /\ bkg_eff_cts[1] = FromInt(200)
    /\ bkg_eff_cts_err[1] = FromInt(50)

LookedUp == pc \in {"h5open", "h5write", "done"}

LookupFailed == pc = "failed" /\ err.at = "meta"

\* C7 as stated: the identifier given with 9 digits and the one given with 10
\* resolve to the same row, and an identifier with no entry fails.
C7_BothFormsResolve ==
    /\ (obsID \in {<<1, 2, 3, 4, 5, 6, 7, 8, 9>>, <<0, 1, 2, 3, 4, 5, 6, 7, 8, 9>>}
        /\ (LookedUp \/ LookupFailed)) =>
          (LookedUp /\ Dfac = 3 /\ EGDfac = 4 /\ gal_l = 10 /\ gal_b = 20)
    /\ LookupFailed => \A r \in world.csv : ZFill(obsID) # Int2Str(r.id)

\* C7 amended: the keys of the metadata table, read as integers, are replaced
\* by their 10-digit zero-padded strings, and the identifier is looked up as it
\* is given: 0123456789 resolves to the row stored as 123456789, and the lookup
\* fails (KeyError) exactly when the identifier is not the padded form of a key,
\* as for 123456789 given with 9 digits and for an identifier with no entry.
C7_MetadataJoin ==
    /\ pc \in {"meta", "h5open", "h5write", "done"} =>
          \A x \in obs_df : x.label.t = "str" /\ Len(x.label.d) = 10
    /\ LookedUp =>
          \E r \in world.csv :
              /\ obsID = Int2Str(r.id)
              /\ Dfac = r.Dfac_gal /\ EGDfac = r.Dfac_eg /\ gal_l = r.LII /\ gal_b = r.BII
    /\ (LookedUp /\ obsID = <<0, 1, 2, 3, 4, 5, 6, 7, 8, 9>>) =>
          (Dfac = 3 /\ EGDfac = 4 /\ gal_l = 10 /\ gal_b = 20)
    /\ LookupFailed =>
          /\ err.kind = "KeyError"
          /\ \A r \in world.csv : obsID # Int2Str(r.id)
    /\ obsID \in {<<1, 2, 3, 4, 5, 6, 7, 8, 9>>, <<0, 0, 0, 0, 0, 0, 0, 0, 4, 2>>} => ~LookedUp
    /\ obsID \in {<<0, 1, 2, 3, 4, 5, 6, 7, 8, 9>>, <<1, 2, 3, 4, 5, 6, 7, 8, 9, 0>>} =>
          ~LookupFailed

\* 0123456789 has resolved to the row stored as 123456789
C7_Witness ==
    /\ obsID = <<0, 1, 2, 3, 4, 5, 6, 7, 8, 9>> /\ pc = "h5open"
    /\ Dfac = 3 /\ gal_b = 20
    /\ \E r \in world.csv : r.id = 123456789 /\ r.Dfac_gal = 3

\* C8: when the script has returned, on success or on an exception, no handle
\* of the four calibration tables is open.
C8_HandlesReleased == pc \in {"done", "failed"} => handles = {}

\* C9 as stated: a BACKSCAL of 1,296,000,000 is exactly 1 steradian, and
\* roi_size is linear in BACKSCAL.
C9_OneSteradian ==
    roi_size # Undef =>
        /\ world.obj.BACKSCAL = 1296000000 => roi_size = One
        /\ \A k \in 1..3 :
              Abs(world.obj.BACKSCAL) <= 3 =>
                  RoiSize(k * world.obj.BACKSCAL) = Mul(FromInt(k), roi_size)

\* C9 amended: roi_size is BACKSCAL * (pi/12960000)^2, which maps a BACKSCAL of
\* 1,296,000,000 to pi^2/129600 sr (about 7.6e-5 sr, not 1 sr), and is linear in
\* BACKSCAL.
C9_RoiConversion ==
    roi_size # Undef =>
        /\ roi_size = Div(Div(Mul(Mul(FromInt(world.obj.BACKSCAL), Pi), Pi),
                              FromInt(12960000)), FromInt(12960000))
        /\ world.obj.BACKSCAL = 1296000000 =>
              (roi_size = Div(Mul(Pi, Pi), FromInt(129600)) /\ roi_size # One)
        /\ \A k \in 1..3 :
              Abs(world.obj.BACKSCAL) <= 3 =>
                  RoiSize(k * world.obj.BACKSCAL) = Mul(FromInt(k), roi_size)

\* a BACKSCAL of 1,296,000,000 has been converted
C9_Witness ==
    /\ world.obj.BACKSCAL = 1296000000
    /\ pc = "grids"
    /\ roi_size = Div(Mul(Pi, Pi), FromInt(129600))

\* C10: the output file exists only once the four tables are open, the matrix
\* is decoded whole, flux and background are computed and the four metadata
\* values are looked up; what it holds is what was computed; and a run that
\* failed has not created it.
C10_WrittenLast ==
    /\ out_file.exists =>
          /\ pc \in {"h5write", "done", "crashed"}
          /\ handles = FileNames
          /\ i = Len(world.rmf1.ENERG_LO)
          /\ \A b \in 1..Len(world.rmf1.ENERG_LO) :
                LET d == DecodeCol(world.rmf1, b - 1, Len(world.rmf2.E_MIN), world.arf.SPECRESP)
                IN  d.ok /\ \A r \in 1..Len(det_res) : det_res[r][b] = d.col[r]
          /\ flux # <<>> /\ bkg_eff_cts # <<>> /\ bkg_eff_cts_err # <<>>
          /\ \E r \in Loc(obs_df, obsID) :
                Dfac = r.Dfac_gal /\ EGDfac = r.Dfac_eg /\ gal_l = r.LII /\ gal_b = r.BII
          /\ \A q \in 1..Len(out_file.sets) :
                out_file.sets[q] = <<Fields[q], Data(Fields[q])>>
    /\ pc = "failed" =>
          /\ out_file = [exists |-> FALSE, closed |-> FALSE, sets |-> <<>>]
          /\ err.at \in {"open_obj", "open_arf", "open_rmf", "open_qpb", "grp", "bkg", "meta"}
    /\ out_file.closed => (pc = "done" /\ Len(out_file.sets) = Len(Fields))

\* the last step before the file is opened, the metadata lookup, has failed
\* with everything else computed, and there is no output file
C10_Witness ==
    /\ pc = "failed" /\ err.at = "meta"
    /\ flux # <<>> /\ bkg_eff_cts # <<>> /\ i = NIn
    /\ ~out_file.exists
====
